---- MODULE Spec2Model ----
(***************************************************************************)
(* Model of src/index.tsx: the particle choreography (Particle), the mode  *)
(* state machine (App.updateMode), the event handlers (App.initEvents),    *)
(* the render loop (App.animate) and the gesture pipeline (VisionManager). *)
(*                                                                         *)
(* Numbers.  Lengths, scales and radians are fixed-point integers in       *)
(* thousandths (Unit); landmark coordinates too.  A result of              *)
(* Math.random() is u / RandDen with u in 0 .. RandDen - 1.                *)
(***************************************************************************)
EXTENDS Integers, Sequences, FiniteSets, TLC

\* ---------------------------------------------------------------- bounds
\* Number of decorations built by initContent (CONFIG.particleCount, scaled
\* down from 1500 so that the collection can be enumerated).
particleCount == 2
\* Photos the user uploads in one run.
MaxPhotos == 2
\* Display frames (requestAnimationFrame rounds) in one run.
MaxFrames == 1
\* Consecutive frames of a run that starts from a laid-out scene.
MaxTicks == 3

\* ------------------------------------------------------------- arithmetic
Unit == 1000
RandDen == 20
\* Math.PI in thousandths.
Pi == 3142

RECURSIVE SqrtBisect(_, _, _)
SqrtBisect(n, lo, hi) ==
    IF hi - lo <= 1 THEN lo
    ELSE LET mid == (lo + hi) \div 2
         IN IF mid * mid <= n THEN SqrtBisect(n, mid, hi)
                              ELSE SqrtBisect(n, lo, mid)

\* Math.sqrt on naturals: the largest r with r*r <= n (exact on squares).
ISqrt(n) == SqrtBisect(n, 0, 46341)

\* Distances between landmarks are kept to FineDigits more decimal digits
\* than the coordinates: Fine parts of a thousandth.
FineDigits == 4
Fine == 10000

\* k more decimal digits of a square root by long division: a is the root
\* so far and rem what is left of the radicand; the result is <<root,
\* remainder>>, and the root is exact when the remainder is 0.
RECURSIVE SqrtDigits(_, _, _)
SqrtDigits(a, rem, k) ==
    IF k = 0 THEN <<a, rem>>
    ELSE LET m == CHOOSE x \in 0 .. 9 :
                     /\ (20 * a + x) * x <= 100 * rem
                     /\ (x = 9 \/ (20 * a + x + 1) * (x + 1) > 100 * rem)
         IN SqrtDigits(10 * a + m, 100 * rem - (20 * a + m) * m, k - 1)

\* Math.hypot(dx, dy) for dx, dy in thousandths: the pair <<lo, hi>> of
\* consecutive or equal numbers of Fine parts of a thousandth with
\* lo <= sqrt(dx^2 + dy^2) <= hi; lo = hi exactly when the root is exact.
Hypot(dx, dy) ==
    LET n == dx * dx + dy * dy
        r == ISqrt(n)
        s == SqrtDigits(r, n - r * r, FineDigits)
    IN <<s[1], IF s[2] = 0 THEN s[1] ELSE s[1] + 1>>

\* The code's `v < t` for the double v it has computed, known to lie in
\* the interval v = <<lo, hi>>; t is the threshold in the same unit.  When
\* the interval does not decide the comparison (the exact value is t, or
\* lo < t < hi), the result is that of the floating-point computation: r
\* is the sign of its error (-1 below, 0 exact, 1 above the exact value).
Less(v, t, r) ==
    IF v[2] <= t /\ v[1] < t THEN TRUE
    ELSE IF v[1] >= t /\ v[2] > t THEN FALSE
    ELSE r < 0

\* The code's `v > t`, likewise.
Greater(v, t, r) ==
    IF v[1] >= t /\ v[2] > t THEN TRUE
    ELSE IF v[2] <= t /\ v[1] < t THEN FALSE
    ELSE r > 0

\* sin(pi * p / q) for 0 <= p <= q, in thousandths, by Bhaskara's rational
\* approximation 16a(1-a) / (5 - 4a(1-a)), a = p/q.  Exact at 0, pi/6,
\* pi/2, 5pi/6 and pi; absolute error below 0.002 elsewhere.
SinHalf(p, q) == (16 * Unit * p * (q - p)) \div (5 * q * q - 4 * p * (q - p))

\* Math.sin of n/d turns (2*pi*n/d radians), n >= 0, d > 0.
SinTurn(n, d) ==
    LET m == (2 * n) % (2 * d)
    IN IF m <= d THEN SinHalf(m, d) ELSE -SinHalf(m - d, d)

\* Math.cos of n/d turns: cos(x) = sin(x + pi/2).
CosTurn(n, d) == SinTurn(4 * n + d, 4 * d)

\* Math.floor(u * k) for a random result u / RandDen.
FloorRand(u, k) == (u * k) \div RandDen

Vec(x, y, z) == <<x, y, z>>
Zero3 == Vec(0, 0, 0)

\* Vector3.multiplyScalar with an integer factor.
multiplyScalar(v, k) == Vec(v[1] * k, v[2] * k, v[3] * k)

\* a += (b - a) * num / den, the easing step used by Vector3.lerp and by
\* the rotation damping.
Ease(a, b, num, den) == a + ((b - a) * num) \div den

\* Vector3.lerp(v, 0.04)
lerpSlow(a, b) == Vec(Ease(a[1], b[1], 4, 100), Ease(a[2], b[2], 4, 100),
                      Ease(a[3], b[3], 4, 100))

\* Vector3.lerp(v, 0.05)
lerp(a, b) == Vec(Ease(a[1], b[1], 5, 100), Ease(a[2], b[2], 5, 100),
                  Ease(a[3], b[3], 5, 100))

\* ------------------------------------------------------------ Math.random
\* The results of Math.random() consumed while one object is placed, as
\* numerators over RandDen, in call order.  Every handler draws a scenario
\* d in Scenarios; the object at collection index i is then placed with
\* ParticleDraw(d, i).  The values keep the spherical trigonometry exact
\* (azimuth a multiple of a quarter turn, polar cosine with rational sine).
RandTuples == << <<0, 0, 10, 0>>, <<19, 5, 16, 10>>, <<10, 15, 0, 5>> >>

Scenarios == {1, 2}

ParticleDraw(d, i) == RandTuples[((d + i) % Len(RandTuples)) + 1]

\* The single Math.random() of a selection (focus pick, photo tree slot).
PickDraw(d) == RandTuples[d][1]

\* (Math.random() - 0.5), in thousandths.
Centered(u) == (u * Unit) \div RandDen - Unit \div 2

\* --------------------------------------------------------------- Particle
NoFocus == 0

\* setTreeTarget without `this.targetScale.copy(this.baseScale)`.
setTreeTargetKeepsScale(p, i, total, u) ==
    LET radius == (15 * Unit * (total - i)) \div total
        height == (40 * Unit * i) \div total - 20 * Unit
        x == (CosTurn(25 * i, total) * radius) \div Unit + Centered(u[1])
        z == (SinTurn(25 * i, total) * radius) \div Unit + Centered(u[2])
    IN [p EXCEPT !.targetPos = Vec(x, height, z),
                 !.targetRot = Vec((u[3] * Pi) \div RandDen,
                                   (u[4] * Pi) \div RandDen, 0)]

\* Particle.setTreeTarget(i, total); u = the four random results it draws.
setTreeTarget(p, i, total, u) ==
    LET radius == (15 * Unit * (total - i)) \div total
        height == (40 * Unit * i) \div total - 20 * Unit
        \* angle = t * 50 * PI = 25 * i / total turns
        x == (CosTurn(25 * i, total) * radius) \div Unit + Centered(u[1])
        z == (SinTurn(25 * i, total) * radius) \div Unit + Centered(u[2])
    IN [p EXCEPT !.targetPos = Vec(x, height, z),
                 !.targetRot = Vec((u[3] * Pi) \div RandDen,
                                   (u[4] * Pi) \div RandDen, 0),
                 !.targetScale = p.baseScale]

\* The point setScatterTarget computes from its three random results.
ScatterPos(u) ==
    LET r == 8 * Unit + (u[1] * 12 * Unit) \div RandDen
        \* phi = acos(2u - 1): cos(phi) = 2u - 1, sin(phi) = sqrt(1 - cos^2)
        cosPhi == ((2 * u[3] - RandDen) * Unit) \div RandDen
        sinPhi == ISqrt(Unit * Unit - cosPhi * cosPhi)
        rs == (r * sinPhi) \div Unit
    IN Vec((rs * CosTurn(u[2], RandDen)) \div Unit,
           (rs * SinTurn(u[2], RandDen)) \div Unit,
           (r * cosPhi) \div Unit)

\* setScatterTarget followed by `this.mesh.position.copy(this.targetPos)`,
\* as the constructor does.
setScatterTargetSnaps(p, u) ==
    [p EXCEPT !.targetPos = ScatterPos(u), !.targetScale = p.baseScale,
              !.position = ScatterPos(u)]

\* Particle.setScatterTarget()
setScatterTarget(p, u) ==
    [p EXCEPT !.targetPos = ScatterPos(u), !.targetScale = p.baseScale]

\* setFocusTarget without `this.targetPos.multiplyScalar(2.0)`.
setFocusTargetNoPush(p, isFocusItem, u) ==
    IF isFocusItem
    THEN [p EXCEPT !.targetPos = Vec(0, 2 * Unit, 40 * Unit),
                   !.targetRot = Zero3,
                   !.targetScale = Vec(3 * Unit, 3 * Unit, 3 * Unit)]
    ELSE setScatterTarget(p, u)

\* Particle.setFocusTarget(isFocusItem)
setFocusTarget(p, isFocusItem, u) ==
    IF isFocusItem
    THEN [p EXCEPT !.targetPos = Vec(0, 2 * Unit, 40 * Unit),
                   !.targetRot = Zero3,
                   !.targetScale = Vec(3 * Unit, 3 * Unit, 3 * Unit)]
    ELSE LET q == setScatterTarget(p, u)
         IN [q EXCEPT !.targetPos = multiplyScalar(q.targetPos, 2)]

\* new Particle(mesh, type): meshScale is mesh.scale, uv the three random
\* results of the velocity, us those of the initial scatter placement.
NewParticle(meshScale, type, uv, us) ==
    LET p0 == [type |-> type,
               baseScale |-> meshScale,
               targetPos |-> Zero3,
               targetRot |-> Zero3,
               targetScale |-> Zero3,
               velocity |-> Vec(Centered(uv[1]) \div 10, Centered(uv[2]) \div 10,
                                Centered(uv[3]) \div 10),
               position |-> Zero3,
               rotation |-> Zero3,
               scale |-> meshScale]
        p1 == setScatterTarget(p0, us)
    IN [p1 EXCEPT !.position = p1.targetPos]

\* Particle.update(dt, time) under the global mode m.
update(p, m) ==
    [p EXCEPT !.position = lerp(p.position, p.targetPos),
              !.rotation =
                  IF m = "SCATTER"
                  THEN Vec(p.rotation[1] + p.velocity[1] * 2,
                           p.rotation[2] + p.velocity[2] * 2,
                           p.rotation[3])
                  ELSE lerp(p.rotation, p.targetRot),
              !.scale = lerp(p.scale, p.targetScale)]

\* ------------------------------------------------------------------- App
\* mesh.scale chosen by initContent from its shape and size random results:
\* candy cane and sphere keep scale 1, a box gets 0.8 + random * 0.5.
DecorationScale(shape, size) ==
    IF shape * 10 >= RandDen /\ shape * 10 < 4 * RandDen
    THEN LET s == (8 * Unit) \div 10 + (size * 5 * Unit) \div (10 * RandDen)
         IN Vec(s, s, s)
    ELSE Vec(Unit, Unit, Unit)

\* The particle initContent builds at loop index i (0-based) in scenario d.
InitParticle(d, i) ==
    LET a == ParticleDraw(d, i)
        b == ParticleDraw(d, i + 1)
        p == NewParticle(DecorationScale(a[4], a[1]), "DECORATION", a, b)
    IN setTreeTarget(p, i, particleCount, ParticleDraw(d, i + 2))

\* App.initContent: this.particles after the loop.
initContent(d) == [k \in 1 .. particleCount |-> InitParticle(d, k - 1)]

\* this.particles.filter(p => p.type === 'PHOTO'), as collection indices.
Photos(ps) == SelectSeq([k \in 1 .. Len(ps) |-> k], LAMBDA k : ps[k].type = "PHOTO")

\* addPhotoToScene without its setTreeTarget call: the new particle keeps
\* the scatter target of its constructor.
addPhotoToSceneNoTree(ps, d) ==
    Append(ps, NewParticle(Vec(Unit, Unit, Unit), "PHOTO",
                           ParticleDraw(1, Len(ps)), ParticleDraw(1, Len(ps) + 1)))

\* App.addPhotoToScene(texture): the frame mesh has scale 1; the tree slot
\* is Math.floor(Math.random() * CONFIG.particleCount).
addPhotoToScene(ps, d) ==
    LET n == Len(ps)
        p == NewParticle(Vec(Unit, Unit, Unit), "PHOTO",
                         ParticleDraw(1, n), ParticleDraw(1, n + 1))
    IN Append(ps, setTreeTarget(p, FloorRand(PickDraw(d), particleCount),
                                particleCount, ParticleDraw(d, n + 2)))

\* The TREE pass with CONFIG.particleCount as the total, as initContent
\* and addPhotoToScene call setTreeTarget.
ApplyTreeConfigCount(ps, d) ==
    [k \in 1 .. Len(ps) |->
        setTreeTarget(ps[k], k - 1, particleCount, ParticleDraw(d, k))]

\* particles.forEach((p, i) => p.setTreeTarget(i, particles.length))
ApplyTree(ps, d) ==
    [k \in 1 .. Len(ps) |-> setTreeTarget(ps[k], k - 1, Len(ps), ParticleDraw(d, k))]

\* particles.forEach(p => p.setScatterTarget())
ApplyScatter(ps, d) ==
    [k \in 1 .. Len(ps) |-> setScatterTarget(ps[k], ParticleDraw(d, k))]

\* The FOCUS pass with every PHOTO treated as the focus item.
ApplyFocusAllPhotos(ps, f, d) ==
    [k \in 1 .. Len(ps) |->
        setFocusTarget(ps[k], ps[k].type = "PHOTO", ParticleDraw(d, k))]

\* particles.forEach(p => p.setFocusTarget(p === STATE.focusTarget))
ApplyFocus(ps, f, d) ==
    [k \in 1 .. Len(ps) |-> setFocusTarget(ps[k], k = f, ParticleDraw(d, k))]

\* updateMode with the "Fallback if no photos" branch left out.
updateModeNoFallback(st, m, d) ==
    IF st.mode = m THEN st
    ELSE LET s1 == [st EXCEPT !.mode = m, !.writes = @ + 1]
             photos == Photos(s1.particles)
         IN CASE m = "TREE" ->
                   [s1 EXCEPT !.particles = ApplyTree(@, d), !.layouts = @ + 1]
              [] m = "SCATTER" ->
                   [s1 EXCEPT !.particles = ApplyScatter(@, d), !.layouts = @ + 1]
              [] m = "FOCUS" /\ Len(photos) > 0 ->
                   LET f == photos[FloorRand(PickDraw(d), Len(photos)) + 1]
                   IN [s1 EXCEPT !.focusTarget = f,
                                 !.particles = ApplyFocus(@, f, d),
                                 !.layouts = @ + 1]
              [] OTHER -> s1

\* App.updateMode(mode) on st = [mode, focusTarget, particles, writes,
\* layouts]; writes counts the assignments to STATE.mode and layouts the
\* forEach passes over the particles made so far by the running handler.
RECURSIVE updateMode(_, _, _)
updateMode(st, m, d) ==
    IF st.mode = m THEN st
    ELSE LET s1 == [st EXCEPT !.mode = m, !.writes = @ + 1]
             photos == Photos(s1.particles)
         IN CASE m = "TREE" ->
                   [s1 EXCEPT !.particles = ApplyTree(@, d), !.layouts = @ + 1]
              [] m = "SCATTER" ->
                   [s1 EXCEPT !.particles = ApplyScatter(@, d), !.layouts = @ + 1]
              [] m = "FOCUS" ->
                   IF Len(photos) > 0
                   THEN LET f == photos[FloorRand(PickDraw(d), Len(photos)) + 1]
                        IN [s1 EXCEPT !.focusTarget = f,
                                      !.particles = ApplyFocus(@, f, d),
                                      !.layouts = @ + 1]
                   ELSE updateMode(s1, "TREE", d)
              [] OTHER -> s1

\* A call site `this.updateMode(m)` / `this.app.updateMode(m)` of a handler:
\* the request is logged, then updateMode runs.
CallUpdateMode(st, m, d) ==
    updateMode([st EXCEPT !.requests = Append(@, m)], m, d)

\* btn-start click handler
BtnStartHandler(st, d) ==
    CallUpdateMode([st EXCEPT !.isEnabled = TRUE], "TREE", d)

\* The reset handler without `STATE.handData.detected = false`.
BtnResetHandlerKeepsHand(st, d) ==
    LET s1 == [st EXCEPT !.isEnabled = FALSE, !.rotation = Zero3]
        s2 == CallUpdateMode(s1, "TREE", d)
    IN [s2 EXCEPT !.focusTarget = NoFocus]

\* The reset handler without `this.mainGroup.rotation.set(0, 0, 0)`.
BtnResetHandlerKeepsRotation(st, d) ==
    LET s1 == [st EXCEPT !.isEnabled = FALSE]
        s2 == CallUpdateMode(s1, "TREE", d)
    IN [s2 EXCEPT !.focusTarget = NoFocus, !.handData.detected = FALSE]

\* btn-reset click handler
BtnResetHandler(st, d) ==
    LET s1 == [st EXCEPT !.isEnabled = FALSE, !.rotation = Zero3]
        s2 == CallUpdateMode(s1, "TREE", d)
    IN [s2 EXCEPT !.focusTarget = NoFocus, !.handData.detected = FALSE]

\* The texture callback without the lines after updateMode('FOCUS').
TextureLoadedHandlerNoRefocus(st, d) ==
    CallUpdateMode([st EXCEPT !.particles = addPhotoToScene(@, d)], "FOCUS", d)

\* The texture callback focusing photos[0] instead of the last photo.
TextureLoadedHandlerFirstPhoto(st, d) ==
    LET s1 == [st EXCEPT !.particles = addPhotoToScene(@, d)]
        s2 == CallUpdateMode(s1, "FOCUS", d)
        f == Photos(s2.particles)[1]
    IN [s2 EXCEPT !.focusTarget = f,
                  !.particles = ApplyFocus(@, f, d),
                  !.layouts = @ + 1]

\* TextureLoader.load callback of the file-input change handler
TextureLoadedHandler(st, d) ==
    LET s1 == [st EXCEPT !.particles = addPhotoToScene(@, d)]
        s2 == CallUpdateMode(s1, "FOCUS", d)
        photos == Photos(s2.particles)
        f == photos[Len(photos)]
    IN [s2 EXCEPT !.focusTarget = f,
                  !.particles = ApplyFocus(@, f, d),
                  !.layouts = @ + 1]

\* The "Interaction Mapping" with the hand branch tested before FOCUS.
AnimateRotationHandFirst(st) ==
    LET r == st.rotation
    IN IF st.handData.detected /\ st.isEnabled
       THEN LET targetRotY == (st.handData.centerX - Unit \div 2) * 4
                targetRotX == (st.handData.centerY - Unit \div 2) * 2
            IN Vec(Ease(r[1], targetRotX, 1, 10), Ease(r[2], targetRotY, 1, 10), r[3])
       ELSE IF st.mode = "FOCUS"
       THEN Vec(Ease(r[1], 0, 1, 10), Ease(r[2], 0, 1, 10), Ease(r[3], 0, 1, 10))
       ELSE Vec((r[1] * 95) \div 100, r[2] + (2 * Unit) \div 1000, r[3])

\* The three branches of the "Interaction Mapping" of App.animate.
AnimateRotation(st) ==
    LET r == st.rotation
    IN IF st.mode = "FOCUS"
       THEN Vec(Ease(r[1], 0, 1, 10), Ease(r[2], 0, 1, 10), Ease(r[3], 0, 1, 10))
       ELSE IF st.handData.detected /\ st.isEnabled
       THEN LET targetRotY == (st.handData.centerX - Unit \div 2) * 4
                targetRotX == (st.handData.centerY - Unit \div 2) * 2
            IN Vec(Ease(r[1], targetRotX, 1, 10), Ease(r[2], targetRotY, 1, 10), r[3])
       ELSE Vec((r[1] * 95) \div 100, r[2] + (2 * Unit) \div 1000, r[3])

\* App.animate(time)
animate(st) ==
    [st EXCEPT !.particles = [k \in 1 .. Len(@) |-> update(@[k], st.mode)],
               !.rotation = AnimateRotation(st)]

\* -------------------------------------------------------- VisionManager
\* The landmarks processGestures reads.
LmIdx == {0, 4, 8, 9, 12, 16, 20}

\* Math.hypot(lm[a].x - lm[b].x, lm[a].y - lm[b].y)
LmDist(lm, a, b) == Hypot(lm[a].x - lm[b].x, lm[a].y - lm[b].y)

PinchDist(lm) == LmDist(lm, 4, 8)

\* totalDist: the sum over tips [8, 12, 16, 20] of the distance to the wrist.
TotalDist(lm) ==
    LET d8 == LmDist(lm, 8, 0)
        d12 == LmDist(lm, 12, 0)
        d16 == LmDist(lm, 16, 0)
        d20 == LmDist(lm, 20, 0)
    IN <<d8[1] + d12[1] + d16[1] + d20[1], d8[2] + d12[2] + d16[2] + d20[2]>>

\* The thresholds 0.05 of pinchDist, and 0.25 and 0.4 of avgDist =
\* totalDist / 4 taken on totalDist, in Fine parts of a thousandth.
PinchLimit == (5 * Unit * Fine) \div 100
FistLimit == (4 * 25 * Unit * Fine) \div 100
OpenLimit == (4 * 4 * Unit * Fine) \div 10

\* pinchDist <= 0.05
IsPinchInclusive(lm, r) == ~Greater(PinchDist(lm), PinchLimit, r.pinch)

\* pinchDist < 0.05; r.pinch is the rounding of pinchDist
IsPinch(lm, r) == Less(PinchDist(lm), PinchLimit, r.pinch)

\* avgDist <= 0.25
IsFistInclusive(lm, r) == ~Greater(TotalDist(lm), FistLimit, r.avg)

\* avgDist < 0.25, with avgDist = totalDist / 4; r.avg is the rounding of
\* avgDist
IsFist(lm, r) == Less(TotalDist(lm), FistLimit, r.avg)

\* avgDist > 0.4
IsOpen(lm, r) == Greater(TotalDist(lm), OpenLimit, r.avg)

\* VisionManager.processGestures(result); result.landmarks is <<>> or <<lm>>
\* and result.round the rounding of the two distances computed from lm.
processGestures(st, result, d) ==
    IF Len(result.landmarks) > 0
    THEN LET lm == result.landmarks[1]
             s1 == [st EXCEPT !.handData = [detected |-> TRUE,
                                            centerX |-> Unit - lm[9].x,
                                            centerY |-> lm[9].y]]
         IN IF IsPinch(lm, result.round) THEN CallUpdateMode(s1, "FOCUS", d)
            ELSE IF IsFist(lm, result.round) THEN CallUpdateMode(s1, "TREE", d)
            ELSE IF IsOpen(lm, result.round) THEN CallUpdateMode(s1, "SCATTER", d)
            ELSE s1
    ELSE [st EXCEPT !.handData.detected = FALSE]

\* predictWebcam without the `if (!this.isEnabled)` early return.
predictWebcamNoGate(st, inp, d) ==
    IF inp.fresh THEN processGestures(st, [landmarks |-> inp.landmarks, round |-> inp.round], d)
    ELSE st

\* VisionManager.predictWebcam() after its requestAnimationFrame call;
\* inp.fresh is video.currentTime !== lastVideoTime and inp.landmarks what
\* landmarker.detectForVideo returns for that video frame.
predictWebcam(st, inp, d) ==
    IF ~st.isEnabled THEN [st EXCEPT !.handData.detected = FALSE]
    ELSE IF inp.fresh THEN processGestures(st, [landmarks |-> inp.landmarks, round |-> inp.round], d)
    ELSE st

\* ------------------------------------------------------- detector inputs
Wrist == [x |-> 500, y |-> 900]

\* A hand whose lm[9] is c, whose thumb tip is off the index tip by `pinch`
\* and whose tips 8, 12, 16, 20 are o[1..4] = <<sideways, above>> off the
\* wrist.
MkHand(c, pinch, o) ==
    LET tip(k) == [x |-> Wrist.x + o[k][1], y |-> Wrist.y - o[k][2]]
    IN [k \in LmIdx |->
           CASE k = 0 -> Wrist
             [] k = 9 -> c
             [] k = 4 -> [x |-> tip(1).x + pinch[1], y |-> tip(1).y + pinch[2]]
             [] k = 8 -> tip(1)
             [] k = 12 -> tip(2)
             [] k = 16 -> tip(3)
             [] OTHER -> tip(4)]

\* Tips straight above the wrist by a, b, c and e.
Above(a, b, c, e) == <<(<<0, a>>), (<<0, b>>), (<<0, c>>), (<<0, e>>)>>

\* Hands by thumb-to-index distance and openness (mean tip distance): a
\* pinch (0.040) over an open hand (0.45), distance exactly 0.050 over a
\* fist (0.20), and distance 0.060 over openness exactly 0.25, 0.2504 (each
\* tip within 0.25 when cut to thousandths), exactly 0.40 and 0.4005.
Center == [x |-> 200, y |-> 700]
Fist == Above(200, 200, 200, 200)
Open == Above(450, 450, 450, 450)
NearFist == <<(<<21, 250>>), (<<21, 250>>), (<<22, 249>>), (<<22, 249>>)>>
NearOpen == <<(<<20, 400>>), (<<20, 400>>), (<<20, 400>>), (<<20, 400>>)>>

Hands ==
    {MkHand(Center, <<24, 32>>, Open), MkHand(Center, <<30, 40>>, Fist)}
    \cup {MkHand(Center, <<36, 48>>, o) :
             o \in {Above(200, 200, 300, 300), NearFist,
                    Above(400, 400, 400, 400), NearOpen}}

\* The interval v leaves the comparison with threshold t open.
Undecided(v, t) == ~(v[2] <= t /\ v[1] < t) /\ ~(v[1] >= t /\ v[2] > t)

\* The roundings a hand is presented with: where a comparison is left
\* open, the computed double may be exact or off to the side that changes
\* the outcome.
Roundings(h) ==
    {[pinch |-> a, avg |-> b] :
        a \in IF Undecided(PinchDist(h), PinchLimit) THEN {-1, 0} ELSE {0},
        b \in IF Undecided(TotalDist(h), FistLimit) THEN {-1, 0}
              ELSE IF Undecided(TotalDist(h), OpenLimit) THEN {0, 1}
              ELSE {0}}

\* Exact arithmetic, for frames with nothing to compute.
NoRounding == [pinch |-> 0, avg |-> 0]

VideoInputs ==
    {[fresh |-> FALSE, landmarks |-> <<>>, round |-> NoRounding],
     [fresh |-> TRUE, landmarks |-> <<>>, round |-> NoRounding]}
    \cup UNION {{[fresh |-> TRUE, landmarks |-> <<h>>, round |-> r] :
                    r \in Roundings(h)} : h \in Hands}

\* The values of STATE.mode.
Modes == {"TREE", "SCATTER", "FOCUS"}

\* Arguments of updateMode(mode: string) other than the three mode names.
InvalidModes == {"IDLE", ""}

\* ------------------------------------------------------------------ state
VARIABLES
    mode,         \* STATE.mode
    focusTarget,  \* STATE.focusTarget: a collection index, NoFocus for null
    handData,     \* STATE.handData
    isEnabled,    \* visionManager.isEnabled
    particles,    \* app.particles
    rotation,     \* app.mainGroup.rotation
    webcam,       \* the video's loadeddata event has fired
    rafNow,       \* animation-frame callbacks still to run in this frame
    rafNext,      \* callbacks registered for the next frame
    frames,       \* frames begun so far
    last          \* log of the handler that ran last

vars == <<mode, focusTarget, handData, isEnabled, particles, rotation,
          webcam, rafNow, rafNext, frames, last>>

\* The program state the handlers work on, with an empty log.
Cur == [mode |-> mode, focusTarget |-> focusTarget, handData |-> handData,
        isEnabled |-> isEnabled, particles |-> particles, rotation |-> rotation,
        requests |-> <<>>, writes |-> 0, layouts |-> 0]

\* The log entry of a handler: its name, the mode, focus subject, hand
\* flag, gesture switch and composition rotation it started from, the updateMode requests it
\* issued, the writes of STATE.mode and the layout passes it caused, the
\* detector input it was given, and the particle addPhotoToScene returned
\* (before the handler went on).
Log(op, st, inp, added) ==
    [op |-> op,
     pre |-> [mode |-> mode, focusTarget |-> focusTarget,
              detected |-> handData.detected, isEnabled |-> isEnabled,
              rotation |-> rotation],
     requests |-> st.requests, writes |-> st.writes,
     layouts |-> st.layouts, input |-> inp, added |-> added]

NoInput == [fresh |-> FALSE, landmarks |-> <<>>, round |-> NoRounding]

\* The handler's result st becomes the program state.
Commit(op, st, inp, added) ==
    /\ mode' = st.mode
    /\ focusTarget' = st.focusTarget
    /\ handData' = st.handData
    /\ isEnabled' = st.isEnabled
    /\ particles' = st.particles
    /\ rotation' = st.rotation
    /\ last' = Log(op, st, inp, added)

\* State after `new App()`: initThree, initContent, initEvents, the
\* VisionManager (isEnabled = false) and the first requestAnimationFrame.
Init ==
    /\ mode = "TREE"
    /\ focusTarget = NoFocus
    /\ handData = [detected |-> FALSE, centerX |-> Unit \div 2, centerY |-> Unit \div 2]
    /\ isEnabled = FALSE
    /\ particles = initContent(1)
    /\ rotation = Zero3
    /\ webcam = FALSE
    /\ rafNow = <<>>
    /\ rafNext = <<"animate">>
    /\ frames = 0
    /\ last = [op |-> "init",
               pre |-> [mode |-> "TREE", focusTarget |-> NoFocus,
                        detected |-> FALSE, isEnabled |-> FALSE,
                        rotation |-> Zero3],
               requests |-> <<>>, writes |-> 0, layouts |-> 0,
               input |-> NoInput, added |-> <<>>]

\* Event handlers run between frames, never inside the callbacks of one.
Idle == rafNow = <<>>

BtnStart ==
    /\ Idle
    /\ \E d \in Scenarios : Commit("start", BtnStartHandler(Cur, d), NoInput, <<>>)
    /\ UNCHANGED <<webcam, rafNow, rafNext, frames>>

BtnReset ==
    /\ Idle
    /\ \E d \in Scenarios : Commit("reset", BtnResetHandler(Cur, d), NoInput, <<>>)
    /\ UNCHANGED <<webcam, rafNow, rafNext, frames>>

TextureLoaded ==
    /\ Idle
    /\ Len(Photos(particles)) < MaxPhotos
    /\ \E d \in Scenarios :
          LET ps == addPhotoToScene(particles, d)
          IN Commit("photo", TextureLoadedHandler(Cur, d), NoInput, <<ps[Len(ps)]>>)
    /\ UNCHANGED <<webcam, rafNow, rafNext, frames>>

\* The video's loadeddata listener: the first predictWebcam() call, which
\* registers itself for the next frame (lastVideoTime is -1: the frame is new).
LoadedData ==
    /\ Idle
    /\ ~webcam
    /\ webcam' = TRUE
    /\ rafNext' = Append(rafNext, "predictWebcam")
    /\ \E d \in Scenarios, inp \in {i \in VideoInputs : i.fresh} :
          Commit("predictWebcam", predictWebcam(Cur, inp, d), inp, <<>>)
    /\ UNCHANGED <<rafNow, frames>>

\* The browser starts a frame: the callbacks registered since the last one
\* become due and the first of them, animate (registered by the constructor
\* and then by each of its own runs), is called.
Animate ==
    /\ Idle
    /\ frames < MaxFrames
    /\ Head(rafNext) = "animate"
    /\ frames' = frames + 1
    /\ rafNow' = Tail(rafNext)
    /\ rafNext' = <<"animate">>
    /\ Commit("animate", animate(Cur), NoInput, <<>>)
    /\ UNCHANGED webcam

PredictWebcam ==
    /\ rafNow # <<>>
    /\ Head(rafNow) = "predictWebcam"
    /\ rafNow' = Tail(rafNow)
    /\ rafNext' = Append(rafNext, "predictWebcam")
    /\ \E d \in Scenarios, inp \in VideoInputs :
          Commit("predictWebcam", predictWebcam(Cur, inp, d), inp, <<>>)
    /\ UNCHANGED <<webcam, frames>>

Next ==
    \/ BtnStart
    \/ BtnReset
    \/ TextureLoaded
    \/ LoadedData
    \/ Animate
    \/ PredictWebcam

Spec == Init /\ [][Next]_vars

\* ----------------------------------------------------- runs of frames only
\* The program state after `new App()`, as the handlers' record.
Constructed ==
    [mode |-> "TREE", focusTarget |-> NoFocus,
     handData |-> [detected |-> FALSE, centerX |-> Unit \div 2, centerY |-> Unit \div 2],
     isEnabled |-> FALSE, particles |-> initContent(1), rotation |-> Zero3,
     requests |-> <<>>, writes |-> 0, layouts |-> 0]

\* The state a handler has left, as the next handler finds it.
Settled(st) == [st EXCEPT !.requests = <<>>, !.writes = 0, !.layouts = 0]

\* What the detector reports in these runs: no new video frame, no hand, a
\* pinch, a fist with the thumb 0.050 off the index tip (a fist, or a pinch
\* when the distance comes out below) and an open hand.
TickInputs ==
    {i \in VideoInputs :
        \/ i.landmarks = <<>>
        \/ i.landmarks[1] \in {MkHand(Center, <<24, 32>>, Open),
                               MkHand(Center, <<30, 40>>, Fist),
                               MkHand(Center, <<36, 48>>, NearOpen)}}

\* A scene to run frames on: after `new App()` one photo has been
\* uploaded, the start button pressed and the webcam has delivered its
\* first video frame to the loadeddata listener, which has classified it
\* and registered predictWebcam for the next frame.
TickInit ==
    \E d \in Scenarios, inp \in {i \in TickInputs : i.fresh} :
       LET s0 == Settled(BtnStartHandler(
                            Settled(TextureLoadedHandler(Constructed, d)), d))
           st == predictWebcam(s0, inp, d)
       IN /\ mode = st.mode
          /\ focusTarget = st.focusTarget
          /\ handData = st.handData
          /\ isEnabled = st.isEnabled
          /\ particles = st.particles
          /\ rotation = st.rotation
          /\ webcam = TRUE
          /\ rafNow = <<>>
          /\ rafNext = <<"animate", "predictWebcam">>
          /\ frames = 0
          /\ last = [op |-> "predictWebcam",
                     pre |-> [mode |-> s0.mode, focusTarget |-> s0.focusTarget,
                              detected |-> s0.handData.detected,
                              isEnabled |-> s0.isEnabled,
                              rotation |-> s0.rotation],
                     requests |-> st.requests, writes |-> st.writes,
                     layouts |-> st.layouts, input |-> inp, added |-> <<>>]

\* The browser starts a frame and calls animate, as in Animate.
Tick ==
    /\ Idle
    /\ frames < MaxTicks
    /\ Head(rafNext) = "animate"
    /\ frames' = frames + 1
    /\ rafNow' = Tail(rafNext)
    /\ rafNext' = <<"animate">>
    /\ Commit("animate", animate(Cur), NoInput, <<>>)
    /\ UNCHANGED webcam

\* The predictWebcam callback of the frame, as in PredictWebcam.
TickPredict ==
    /\ rafNow # <<>>
    /\ Head(rafNow) = "predictWebcam"
    /\ rafNow' = Tail(rafNow)
    /\ rafNext' = Append(rafNext, "predictWebcam")
    /\ \E d \in Scenarios, inp \in TickInputs :
          Commit("predictWebcam", predictWebcam(Cur, inp, d), inp, <<>>)
    /\ UNCHANGED <<webcam, frames>>

TickNext ==
    \/ Tick
    \/ TickPredict

TickSpec == TickInit /\ [][TickNext]_vars

\* ------------------------------------------------------------ properties
\* The target transforms of a collection, by collection index.
Targets(ps) ==
    [k \in 1 .. Len(ps) |-> <<ps[k].targetPos, ps[k].targetRot, ps[k].targetScale>>]

Range(f) == {f[k] : k \in DOMAIN f}

NumPhotos == Len(Photos(particles))

\* The last handler was a landmark frame handed to processGestures with a
\* hand in it.
HandFrame ==
    /\ last.op = "predictWebcam"
    /\ last.pre.isEnabled
    /\ last.input.fresh
    /\ Len(last.input.landmarks) > 0

\* The thumb-index distance the program has computed for the hand of
\* input inp is below 0.05: the exact distance is, or it is 0.05 and the
\* computation has rounded down.
PinchBelow(inp) ==
    LET lm == inp.landmarks[1]
        n == (lm[4].x - lm[8].x) * (lm[4].x - lm[8].x)
                + (lm[4].y - lm[8].y) * (lm[4].y - lm[8].y)
        t == Unit \div 20
    IN n < t * t \/ (n = t * t /\ inp.round.pinch < 0)

\* The openness (mean tip-to-wrist distance) the program has computed for
\* the hand of input inp is below 0.25, and above 0.4.
OpennessBelow(inp) == Less(TotalDist(inp.landmarks[1]), FistLimit, inp.round.avg)
OpennessAbove(inp) == Greater(TotalDist(inp.landmarks[1]), OpenLimit, inp.round.avg)

Abs(x) == IF x < 0 THEN -x ELSE x

\* x^2 + y^2 + z^2
NormSq(v) == v[1] * v[1] + v[2] * v[2] + v[3] * v[3]

\* ||v|| lies in [lo, hi] (lo, hi in whole length units).
NormWithin(v, lo, hi) ==
    /\ NormSq(v) >= (lo * Unit) * (lo * Unit)
    /\ NormSq(v) <= (hi * Unit) * (hi * Unit)

\* p carries the target of the focus subject.
IsFocusSubjectTarget(p) ==
    /\ p.targetPos = Vec(0, 2 * Unit, 40 * Unit)
    /\ p.targetRot = Zero3
    /\ p.targetScale = Vec(3 * Unit, 3 * Unit, 3 * Unit)

\* The points setScatterTarget can produce, and those points doubled.
ScatterPoints == {ScatterPos(u) : u \in Range(RandTuples)}

PushedPoints == {multiplyScalar(v, 2) : v \in ScatterPoints}

\* p carries a non-subject focus target: a doubled scatter point (radius in
\* [8, 20], doubled to [16, 40]) at base scale.
IsFocusOtherTarget(p) ==
    /\ p.targetPos \in PushedPoints
    /\ NormWithin(p.targetPos, 16, 40)
    /\ p.targetScale = p.baseScale

\* p carries a scatter target: a point of radius in [8, 20] at base scale.
IsScatterTarget(p) ==
    /\ p.targetPos \in ScatterPoints
    /\ NormWithin(p.targetPos, 8, 20)
    /\ p.targetScale = p.baseScale

\* p carries the tree target of slot i out of total: the height 40 i/total
\* - 20, a point within the jitter of the helix, roll 0, base scale.
IsTreeTarget(p, i, total) ==
    LET radius == (15 * Unit * (total - i)) \div total
    IN /\ p.targetPos[2] = (40 * Unit * i) \div total - 20 * Unit
       /\ Abs(p.targetPos[1] - (CosTurn(25 * i, total) * radius) \div Unit) <= Unit \div 2
       /\ Abs(p.targetPos[3] - (SinTurn(25 * i, total) * radius) \div Unit) <= Unit \div 2
       /\ p.targetRot[1] \in 0 .. Pi /\ p.targetRot[2] \in 0 .. Pi /\ p.targetRot[3] = 0
       /\ p.targetScale = p.baseScale

\* C1: with zero PHOTO objects a FOCUS request ends in TREE with no focus
\* subject, from every reachable state and for every random outcome, and in
\* particular after a pinch frame; the mode never rests in FOCUS without a
\* photo.
C1_FocusWithoutPhotoFallsBack ==
    /\ NumPhotos = 0 =>
          \A d \in Scenarios :
             LET r == updateMode(Cur, "FOCUS", d)
             IN r.mode = "TREE" /\ r.focusTarget = NoFocus
    /\ (NumPhotos = 0 /\ "FOCUS" \in Range(last.requests)) =>
          (mode = "TREE" /\ focusTarget = NoFocus)
    /\ mode = "FOCUS" => NumPhotos > 0

\* A pinch frame asked for FOCUS while the collection held no photo.
C1_Witness ==
    /\ HandFrame
    /\ last.requests = <<"FOCUS">>
    /\ NumPhotos = 0
    /\ mode = "TREE"

\* C2: setMode(X); setMode(X) is idempotent: the second call changes
\* neither the mode, nor any target, nor the focus subject.
C2_SetModeIdempotent ==
    \A m \in Modes, d1 \in Scenarios, d2 \in Scenarios :
       LET s1 == updateMode(Cur, m, d1)
           s2 == updateMode(s1, m, d2)
       IN /\ s2.mode = s1.mode
          /\ s2.focusTarget = s1.focusTarget
          /\ Targets(s2.particles) = Targets(s1.particles)

\* C3: in every reachable state with mode # FOCUS the focus subject is null.
C3_NoFocusSubjectOutsideFocus ==
    mode # "FOCUS" => focusTarget = NoFocus

\* C4: after a "new photo added" event the mode is FOCUS, the focus subject
\* is the most recently added PHOTO (the last PHOTO in collection order), it
\* has the focus-subject target and every other object a non-subject focus
\* target.
C4_NewPhotoBecomesFocus ==
    last.op = "photo" =>
       /\ mode = "FOCUS"
       /\ NumPhotos > 0
       /\ focusTarget = Photos(particles)[NumPhotos]
       /\ focusTarget = Len(particles)
       /\ \A k \in 1 .. Len(particles) :
             IF k = focusTarget THEN IsFocusSubjectTarget(particles[k])
                                ELSE IsFocusOtherTarget(particles[k])

\* A second photo was added while another photo was the focus subject.
C4_Witness ==
    /\ last.op = "photo"
    /\ last.pre.mode = "FOCUS"
    /\ NumPhotos = 2
    /\ focusTarget = Len(particles)
    /\ IsFocusOtherTarget(particles[last.pre.focusTarget])

\* C5 as stated: a photo added while mode = FOCUS with a focus subject S
\* leaves S the focus subject.
C5_AddInFocusKeepsSubject ==
    [][(mode = "FOCUS" /\ focusTarget # NoFocus /\ Len(particles') > Len(particles))
          => focusTarget' = focusTarget]_vars

\* C5 amended: a photo added while mode = FOCUS with a focus subject S makes
\* the new photo the focus subject; without an add, the subject is kept for
\* as long as the mode stays FOCUS.
C5_AddInFocusRefocusesNewPhoto ==
    [][(mode = "FOCUS" /\ focusTarget # NoFocus) =>
          IF Len(particles') > Len(particles)
          THEN /\ mode' = "FOCUS"
               /\ focusTarget' = Len(particles')
               /\ focusTarget' # focusTarget
               /\ particles'[focusTarget'].type = "PHOTO"
          ELSE mode' = "FOCUS" => focusTarget' = focusTarget]_vars

\* A photo was added in FOCUS with a subject, and the new photo took over.
C5_Witness ==
    /\ last.op = "photo"
    /\ last.pre.mode = "FOCUS"
    /\ last.pre.focusTarget # NoFocus
    /\ focusTarget = Len(particles)
    /\ focusTarget # last.pre.focusTarget

\* C6 as stated: addObject gives the new object the target of the layout of
\* the mode current at the call: the tree target of its collection index and
\* the collection count in TREE, a scatter target in SCATTER, a focus target
\* in FOCUS.
C6_AddObjectUsesCurrentLayout ==
    last.op = "photo" =>
       LET p == last.added[1]
           n == Len(particles)
       IN CASE last.pre.mode = "TREE" -> IsTreeTarget(p, n - 1, n)
            [] last.pre.mode = "SCATTER" -> IsScatterTarget(p)
            [] OTHER -> IsFocusSubjectTarget(p) \/ IsFocusOtherTarget(p)

\* C6 amended: addPhotoToScene appends the new PHOTO object and gives it,
\* whatever the mode, the tree target of a random slot out of
\* CONFIG.particleCount slots.
C6_AddPhotoGivesRandomTreeSlot ==
    last.op = "photo" =>
       LET p == last.added[1]
           q == particles[Len(particles)]
       IN /\ p.type = "PHOTO"
          /\ Len(last.added) = 1
          /\ <<q.type, q.baseScale, q.velocity>> = <<p.type, p.baseScale, p.velocity>>
          /\ \E slot \in 0 .. particleCount - 1 : IsTreeTarget(p, slot, particleCount)

\* A photo added in SCATTER mode came back from addPhotoToScene with the
\* tree target of the last slot.
C6_Witness ==
    /\ last.op = "photo"
    /\ last.pre.mode = "SCATTER"
    /\ IsTreeTarget(last.added[1], particleCount - 1, particleCount)
    /\ ~IsScatterTarget(last.added[1])

\* C7: a landmark frame delivered while gesture input is disabled issues no
\* updateMode request and leaves the mode, the focus subject and every
\* target unchanged.
C7_DisabledFramesChangeNothing ==
    [][(last'.op = "predictWebcam" /\ ~isEnabled) =>
          /\ last'.requests = <<>>
          /\ last'.writes = 0 /\ last'.layouts = 0
          /\ mode' = mode
          /\ focusTarget' = focusTarget
          /\ Targets(particles') = Targets(particles)]_vars

\* A pinch frame was delivered while gesture input was disabled, with a
\* photo to focus on and the mode not FOCUS.
C7_Witness ==
    /\ last.op = "predictWebcam"
    /\ ~last.pre.isEnabled
    /\ last.input.fresh
    /\ Len(last.input.landmarks) > 0
    /\ PinchBelow(last.input)
    /\ NumPhotos > 0
    /\ mode = "TREE"

\* C8: between handlers, gesture input disabled implies no hand present;
\* the flag only becomes true by a hand frame processed with gesture input
\* enabled.
C8_DisabledMeansNoHand ==
    /\ ~isEnabled => ~handData.detected
    /\ (handData.detected /\ ~last.pre.detected) => HandFrame

\* Reset was pressed while a hand was detected.
C8_Witness ==
    /\ last.op = "reset"
    /\ last.pre.detected
    /\ last.pre.isEnabled
    /\ ~isEnabled
    /\ ~handData.detected

\* C9: a processed hand frame whose thumb-index distance, as the program
\* has computed it, is < 0.05 issues exactly one request, FOCUS, whatever
\* the openness; with distance >= 0.05 it issues no FOCUS request.
C9_PinchRequestsFocusOnly ==
    HandFrame =>
       IF PinchBelow(last.input)
       THEN last.requests = <<"FOCUS">>
       ELSE "FOCUS" \notin Range(last.requests)

\* A pinch with an open hand (openness 0.45) asked for FOCUS only.
C9_Witness ==
    /\ HandFrame
    /\ PinchBelow(last.input)
    /\ OpennessAbove(last.input)
    /\ last.requests = <<"FOCUS">>

\* C10: a processed hand frame that is not a pinch requests TREE when
\* openness, as the program has computed it, is < 0.25, SCATTER when it is
\* > 0.4, and nothing when it is in [0.25, 0.4]: then the mode is as before
\* and no layout is applied.
C10_OpennessThresholds ==
    (HandFrame /\ ~PinchBelow(last.input)) =>
       /\ OpennessBelow(last.input) => last.requests = <<"TREE">>
       /\ OpennessAbove(last.input) => last.requests = <<"SCATTER">>
       /\ (~OpennessBelow(last.input) /\ ~OpennessAbove(last.input)) =>
             /\ last.requests = <<>>
             /\ last.writes = 0 /\ last.layouts = 0
             /\ mode = last.pre.mode

\* A hand at openness exactly 0.25, computed exactly, was seen in SCATTER
\* mode and the mode stayed SCATTER.
C10_Witness ==
    /\ HandFrame
    /\ ~PinchBelow(last.input)
    /\ TotalDist(last.input.landmarks[1]) = <<FistLimit, FistLimit>>
    /\ last.input.round.avg = 0
    /\ last.pre.mode = "SCATTER"
    /\ mode = "SCATTER"

\* C11: the reset handler ends, from every reachable state (any mode, any
\* focus subject, any composition rotation, gesture input on or off), with
\* mode TREE, no focus subject and the composition rotation (0,0,0) (and
\* gesture input off); when the mode was not TREE before, every object then
\* carries the tree target of its collection index.
C11_ResetReturnsToInitial ==
    last.op = "reset" =>
       /\ mode = "TREE" /\ focusTarget = NoFocus /\ rotation = Zero3
       /\ ~isEnabled
       /\ last.requests = <<"TREE">>
       /\ last.pre.mode # "TREE" =>
             \A k \in 1 .. Len(particles) :
                IsTreeTarget(particles[k], k - 1, Len(particles))

\* Reset was pressed in FOCUS mode with a focus subject, gesture input on
\* and the composition turned away from neutral.
C11_Witness ==
    /\ last.op = "reset"
    /\ last.pre.mode = "FOCUS"
    /\ last.pre.focusTarget # NoFocus
    /\ last.pre.isEnabled
    /\ last.pre.rotation # Zero3
    /\ mode = "TREE" /\ focusTarget = NoFocus /\ rotation = Zero3

\* C12: updateMode called with a value outside {TREE, SCATTER, FOCUS} is
\* rejected: the mode, the focus subject and every target stay as they
\* were, and the mode is one of the three in every reachable state.
C12_InvalidModeRejected ==
    /\ mode \in Modes
    /\ \A m \in InvalidModes, d \in Scenarios :
          LET r == updateMode(Cur, m, d)
          IN /\ r.mode = mode
             /\ r.focusTarget = focusTarget
             /\ Targets(r.particles) = Targets(particles)

\* C13: in every reachable state with mode TREE, with N the number of
\* objects, the object at collection index i (0-based) has target height
\* 40 * (i / N) - 20, within [-20, 20], and target heights do not decrease
\* with the index.
C13_TreeHeightsByIndex ==
    mode = "TREE" =>
       LET N == Len(particles)
       IN /\ \A k \in 1 .. N :
                /\ particles[k].targetPos[2] = (40 * Unit * (k - 1)) \div N - 20 * Unit
                /\ particles[k].targetPos[2] >= -20 * Unit
                /\ particles[k].targetPos[2] <= 20 * Unit
          /\ \A j \in 1 .. N, k \in 1 .. N :
                j <= k => particles[j].targetPos[2] <= particles[k].targetPos[2]

\* TREE was entered by the start button or a fist after photos had been
\* added: the collection is longer than CONFIG.particleCount.
C13_Witness ==
    /\ mode = "TREE"
    /\ last.requests = <<"TREE">>
    /\ last.pre.mode # "TREE"
    /\ NumPhotos = MaxPhotos
    /\ Len(particles) > particleCount
    /\ particles[Len(particles)].type = "PHOTO"

\* C14: after updateMode('FOCUS') has entered FOCUS with subject S (a
\* pinch seen in another mode with a photo in the collection), S has target
\* position (0,2,40), target rotation (0,0,0) and target scale (3,3,3);
\* every other object has as target position a scatter position (radius in
\* [8,20]) multiplied by 2, of norm in [16,40], and as target scale its
\* base scale.
C14_FocusEntryTargets ==
    (last.op = "predictWebcam" /\ last.requests = <<"FOCUS">>
        /\ last.pre.mode # "FOCUS" /\ NumPhotos > 0) =>
       LET S == focusTarget
       IN /\ mode = "FOCUS"
          /\ last.writes = 1 /\ last.layouts = 1
          /\ S \in Range(Photos(particles))
          /\ particles[S].targetPos = Vec(0, 2 * Unit, 40 * Unit)
          /\ particles[S].targetRot = Zero3
          /\ particles[S].targetScale = Vec(3 * Unit, 3 * Unit, 3 * Unit)
          /\ \A k \in (1 .. Len(particles)) \ {S} :
                /\ \E v \in ScatterPoints :
                      /\ NormWithin(v, 8, 20)
                      /\ particles[k].targetPos = multiplyScalar(v, 2)
                /\ NormWithin(particles[k].targetPos, 16, 40)
                /\ particles[k].targetScale = particles[k].baseScale

\* A pinch entered FOCUS from another mode with two photos to pick from;
\* the photo that was not picked is pushed out.
C14_Witness ==
    /\ HandFrame
    /\ last.requests = <<"FOCUS">>
    /\ last.pre.mode # "FOCUS"
    /\ mode = "FOCUS"
    /\ NumPhotos = 2
    /\ IsFocusSubjectTarget(particles[focusTarget])
    /\ \E k \in Range(Photos(particles)) :
          k # focusTarget /\ IsFocusOtherTarget(particles[k])

\* Particle.update called k times in a row under mode m.
RECURSIVE Ticks(_, _, _)
Ticks(p, m, k) == IF k = 0 THEN p ELSE Ticks(update(p, m), m, k - 1)

\* 0.95^k * dist, rounded up to the resolution after every factor.
RECURSIVE Shrunk(_, _)
Shrunk(dist, k) == IF k = 0 THEN dist ELSE (95 * Shrunk(dist, k - 1) + 99) \div 100

\* Coordinate b is between a and the target t (a itself and t included).
NoOvershoot(a, b, t) ==
    /\ a <= t => (a <= b /\ b <= t)
    /\ a >= t => (t <= b /\ b <= a)

\* C15: for an object whose target stays fixed during K consecutive
\* ticks, the distance of its position and of its scale to the target is,
\* on every coordinate and to the resolution of the numbers, at most
\* 0.95^K times the distance before them, and every single tick leaves
\* each coordinate between its old value and the target (the distance
\* does not grow, the target is not overshot).
C15_TicksConverge ==
    \A i \in 1 .. Len(particles), K \in 1 .. MaxTicks, c \in 1 .. 3 :
       LET p == particles[i]
           q == Ticks(p, mode, K)
           q1 == Ticks(p, mode, K - 1)
       IN /\ <<q.targetPos, q.targetScale>> = <<p.targetPos, p.targetScale>>
          /\ Abs(p.targetPos[c] - q.position[c])
                <= Shrunk(Abs(p.targetPos[c] - p.position[c]), K)
          /\ Abs(p.targetScale[c] - q.scale[c])
                <= Shrunk(Abs(p.targetScale[c] - p.scale[c]), K)
          /\ NoOvershoot(q1.position[c], q.position[c], p.targetPos[c])
          /\ NoOvershoot(q1.scale[c], q.scale[c], p.targetScale[c])

\* MaxTicks frames have run in FOCUS: the subject's scale has gone from 1
\* to 1.285 on its way to 3 (distance 2 * 0.95^3 = 1.715) and its position
\* is still on its way.
C15_Witness ==
    /\ last.op = "animate"
    /\ frames = 3
    /\ mode = "FOCUS"
    /\ particles[focusTarget].targetScale = Vec(3 * Unit, 3 * Unit, 3 * Unit)
    /\ particles[focusTarget].scale = Vec(1285, 1285, 1285)
    /\ particles[focusTarget].position # particles[focusTarget].targetPos

\* C16: within every frame in which a landmark frame is classified, the
\* classification (and the mode transition it triggers) runs first and the
\* object advance and orientation update of animate after it: when animate
\* has run, no predictWebcam callback of the same frame is still to run, and
\* a classification never runs after the animate of its frame.
C16_ClassifyBeforeAdvance ==
    [][/\ last'.op = "animate" => "predictWebcam" \notin Range(rafNow')
       /\ (last'.op = "predictWebcam" /\ ~Idle) => last.op # "animate"]_vars

\* C17: processing one landmark frame writes the mode at most once and
\* applies at most one layout to the objects, from every reachable state
\* (zero PHOTO objects included) and for every frame content.
C17_OneModeWritePerFrame ==
    /\ \A inp \in VideoInputs, d \in Scenarios :
          LET r == predictWebcam(Cur, inp, d)
          IN r.writes <= 1 /\ r.layouts <= 1
    /\ last.op = "predictWebcam" => (last.writes <= 1 /\ last.layouts <= 1)

\* C18: the orientation update of a frame follows a three-way priority.
\* In FOCUS every axis of the composition rotation moves 0.1 of the way
\* toward 0, whatever the hand signal, so no axis grows in magnitude;
\* otherwise, with a hand detected and gesture input on, yaw (y) eases
\* toward (centerX - 0.5) * 4 and pitch (x) toward (centerY - 0.5) * 2 with
\* factor 0.1; otherwise yaw grows by 0.002 and pitch is multiplied by 0.95.
C18_RotationPriority ==
    [][last'.op = "animate" =>
          LET pitch == rotation[1]
              yaw == rotation[2]
          IN IF mode = "FOCUS"
             THEN \A c \in 1 .. 3 :
                     /\ rotation'[c] = rotation[c] + (0 - rotation[c]) \div 10
                     /\ Abs(rotation'[c]) <= Abs(rotation[c])
             ELSE IF handData.detected /\ isEnabled
             THEN /\ rotation'[2] = yaw + ((handData.centerX - 500) * 4 - yaw) \div 10
                  /\ rotation'[1] = pitch + ((handData.centerY - 500) * 2 - pitch) \div 10
                  /\ rotation'[3] = rotation[3]
             ELSE /\ rotation'[2] = yaw + 2
                  /\ rotation'[1] = (pitch * 95) \div 100
                  /\ rotation'[3] = rotation[3]]_vars

\* An open hand had turned the composition in SCATTER (pitch 0.04, yaw
\* 0.12), a pinch then entered FOCUS, and a frame ran with the hand still
\* detected and gesture input on: pitch went to 0.036 and yaw to 0.108,
\* toward neutral and not toward the hand.
C18_Witness ==
    /\ last.op = "animate"
    /\ mode = "FOCUS"
    /\ handData.detected /\ isEnabled
    /\ last.pre.rotation = Vec(40, 120, 0)
    /\ rotation = Vec(36, 108, 0)

\* The current transforms of a collection, by collection index.
Currents(ps) ==
    [k \in 1 .. Len(ps) |-> <<ps[k].position, ps[k].rotation, ps[k].scale>>]

\* C19: a mode transition changes only targets, and a tick changes no
\* target.  Every handler that calls updateMode (start, reset, a landmark
\* frame, the photo callback for the objects that existed) leaves every
\* object's current position, rotation and scale as they were; a frame of
\* animate leaves every object's target position, rotation and scale, the
\* mode and the focus subject as they were.
C19_ModeChangeMovesOnlyTargets ==
    [][/\ last'.op \in {"start", "reset", "predictWebcam"} =>
             Currents(particles') = Currents(particles)
       /\ last'.op = "photo" =>
             SubSeq(Currents(particles'), 1, Len(particles)) = Currents(particles)
       /\ last'.op = "animate" =>
             /\ Targets(particles') = Targets(particles)
             /\ mode' = mode
             /\ focusTarget' = focusTarget]_vars

\* After a frame had moved the objects, an open hand switched TREE to
\* SCATTER: the layout changed while the objects are where the frame left
\* them, away from their new targets.
C19_Witness ==
    /\ frames = 1
    /\ HandFrame
    /\ last.requests = <<"SCATTER">>
    /\ last.pre.mode = "TREE"
    /\ mode = "SCATTER"
    /\ last.layouts = 1
    /\ \A k \in 1 .. Len(particles) :
          /\ IsScatterTarget(particles[k])
          /\ particles[k].position # particles[k].targetPos

\* C20: in every state between event handlers, mode FOCUS implies that the
\* focus subject is not null, is an object of the collection of type PHOTO,
\* and is the only object whose target is the focus-subject target
\* (position (0,2,40), scale (3,3,3)), after any interleaving of button
\* presses, landmark frames, photo uploads and resets.
C20_FocusHasOnePhotoSubject ==
    mode = "FOCUS" =>
       /\ focusTarget # NoFocus
       /\ focusTarget \in 1 .. Len(particles)
       /\ particles[focusTarget].type = "PHOTO"
       /\ \A k \in 1 .. Len(particles) :
             (/\ particles[k].targetPos = Vec(0, 2 * Unit, 40 * Unit)
              /\ particles[k].targetScale = Vec(3 * Unit, 3 * Unit, 3 * Unit))
             <=> k = focusTarget

\* After two uploads and a reset, a pinch re-entered FOCUS and picked the
\* photo uploaded first; the photo uploaded last no longer has the
\* focus-subject target.
C20_Witness ==
    /\ mode = "FOCUS"
    /\ HandFrame
    /\ last.pre.mode = "TREE"
    /\ last.pre.focusTarget = NoFocus
    /\ NumPhotos = 2
    /\ focusTarget = Photos(particles)[1]
    /\ ~IsFocusSubjectTarget(particles[Photos(particles)[2]])

\* C21: in every state between event handlers with mode # FOCUS, every
\* object's target scale equals its base scale; in particular the object
\* that was the enlarged focus subject has its base scale as target as soon
\* as the mode has left FOCUS, by any route (landmark frame, start, reset).
C21_BaseScaleOutsideFocus ==
    /\ mode # "FOCUS" =>
          \A k \in 1 .. Len(particles) :
             particles[k].targetScale = particles[k].baseScale
    /\ (last.pre.mode = "FOCUS" /\ mode # "FOCUS") =>
          /\ last.op \in {"predictWebcam", "start", "reset"}
          /\ last.layouts = 1
          /\ last.pre.focusTarget \in 1 .. Len(particles)
          /\ particles[last.pre.focusTarget].targetScale
                = particles[last.pre.focusTarget].baseScale

\* The start button left FOCUS for TREE: the photo that was the subject,
\* enlarged to scale 3, has its base scale 1 as target again.
C21_Witness ==
    /\ last.op = "start"
    /\ last.pre.mode = "FOCUS"
    /\ mode = "TREE"
    /\ particles[last.pre.focusTarget].type = "PHOTO"
    /\ particles[last.pre.focusTarget].targetScale = Vec(Unit, Unit, Unit)
    /\ particles[last.pre.focusTarget].baseScale # Vec(3 * Unit, 3 * Unit, 3 * Unit)

====
